---- MODULE Spec2Model ----
(***************************************************************************)
(* A model of Qcrawler: UniversalCrawler (URL normalisation, exclusion     *)
(* rules, markup and JSON record extraction) and CrawlerManager.crawl_all  *)
(* with the Database it writes to.                                         *)
(*                                                                         *)
(* Text that the code inspects character by character (hrefs, base URLs,   *)
(* normalised URLs) is a sequence of one-character strings.                *)
(***************************************************************************)
EXTENDS Integers, Sequences, FiniteSets, TLC

VARIABLES
    \* UniversalCrawler
    base,        \* self.url, the page the crawler is configured for
    exclude,     \* self.exclude, the list of exclusion rules
    srcType,     \* self.type_: "json", or None for markup
    jsonPath,    \* self.json_path split at '.', <<>> when not configured
    fieldMap,    \* self.field_map
    \* one call of _normalize_url
    href,        \* the raw href passed in
    normOut,     \* what the call produced: a value, or a raised exception
    normPc,      \* "call" before the call, "returned" after it
    \* one call of _should_exclude
    chain,       \* the tag (chain[1]) and its ancestors, nearest first
    exclOut,     \* the boolean returned
    exclPc,      \* "call" before the call, "returned" after it
    \* one call of crawl
    fetchOk,     \* whether the HTTP request answered 200 with a readable body
    page,        \* markup: the containers the selector finds, in document order
    data,        \* json: the parsed response body
    crawlOut,    \* the list crawl returned
    crawlPc,     \* "call" before the call, "returned" after it
    \* CrawlerManager and Database
    websites,    \* config['websites']
    db,          \* per table, the urls of its rows (url is the unique key)
    cycle,       \* how many times run() has been started
    pc,          \* where crawl_all stands
    idx,         \* position of the for loop in websites
    results,     \* crawl_all: results of the current site
    before,      \* crawl_all: before
    after,       \* crawl_all: after
    newUrls,     \* crawl_all: new_urls
    pushed,      \* positions in results for which bark_push was called
    crawled,     \* names of the sites crawler.crawl() was called for this cycle
    storedAtCrawl, \* history: the urls stored for the site when its turn began
    stageLog     \* history: the steps completed for the current site, in order

crawlerVars == <<base, exclude, srcType, jsonPath, fieldMap>>
normVars == <<href, normOut, normPc>>
exclVars == <<chain, exclOut, exclPc>>
crawlVars == <<fetchOk, page, data, crawlOut, crawlPc>>
managerVars == <<websites, db, cycle, pc, idx, results, before, after, newUrls,
                 pushed, crawled, storedAtCrawl, stageLog>>

vars == <<crawlerVars, normVars, exclVars, crawlVars, managerVars>>

(***************************************************************************)
(* Bounds                                                                  *)
(***************************************************************************)
MaxPieces == 3       \* an href is the concatenation of at most MaxPieces pieces
MaxChain == 7        \* a tag has at most MaxChain - 1 ancestors
MaxRules == 2        \* the exclude list has at most MaxRules entries
MaxContainers == 3   \* a page has at most MaxContainers containers
MaxItems == 2        \* a JSON list has at most MaxItems items
MaxResults == 2      \* a crawl returns at most MaxResults records to crawl_all
MaxCycles == 2       \* run() is started at most MaxCycles times
NumSites == 2        \* config['websites'] has NumSites entries

(***************************************************************************)
(* Characters and strings                                                  *)
(***************************************************************************)
TAB == "\t"
NEWLINE == "\n"
SPACE == " "

\* str.strip() / str.isspace(): the whitespace characters of the alphabet
Whitespace == {SPACE, TAB, NEWLINE}

LowerLetters == {"a", "b", "c", "d", "e", "f", "g", "h", "i", "j", "k", "l", "m",
                 "n", "o", "p", "q", "r", "s", "t", "u", "v", "w", "x", "y", "z"}
UpperLetters == {"J", "S"}
Digits == {"0", "1", "2", "3", "4", "5", "6", "7", "8", "9"}

\* str.lower() on one character
LowerChar(c) == IF c = "J" THEN "j" ELSE IF c = "S" THEN "s" ELSE c

Lower(s) == [i \in 1..Len(s) |-> LowerChar(s[i])]

StartsWith(s, p) == Len(s) >= Len(p) /\ SubSeq(s, 1, Len(p)) = p

Drop(s, n) == SubSeq(s, n + 1, Len(s))

Contains(s, c) == \E i \in 1..Len(s) : s[i] = c

\* str.find(c): the first position of c (1-based), 0 when absent
Find(s, c) == IF Contains(s, c)
              THEN CHOOSE i \in 1..Len(s) : s[i] = c /\ \A j \in 1..(i - 1) : s[j] # c
              ELSE 0

RECURSIVE LStrip(_, _)
LStrip(s, set) == IF s # <<>> /\ s[1] \in set THEN LStrip(Tail(s), set) ELSE s

RECURSIVE RStrip(_, _)
RStrip(s, set) == IF s # <<>> /\ s[Len(s)] \in set
                  THEN RStrip(SubSeq(s, 1, Len(s) - 1), set) ELSE s

\* str.strip()
Strip(s) == RStrip(LStrip(s, Whitespace), Whitespace)

RECURSIVE RemoveChars(_, _)
RemoveChars(s, set) ==
    IF s = <<>> THEN <<>>
    ELSE IF s[1] \in set THEN RemoveChars(Tail(s), set)
    ELSE <<s[1]>> \o RemoveChars(Tail(s), set)

\* the %XX escapes of the alphabet and the character each stands for
HexDecode(h) == IF h = <<"0", "9">> THEN TAB
                ELSE IF h = <<"2", "0">> THEN SPACE
                ELSE IF h = <<"2", "3">> THEN "#"
                ELSE IF h = <<"5", "B">> THEN "["
                ELSE ""

\* urllib.parse.unquote: every %XX escape is replaced by its character
RECURSIVE Unquote(_)
Unquote(s) ==
    IF s = <<>> THEN <<>>
    ELSE IF s[1] = "%" /\ Len(s) >= 3 /\ HexDecode(SubSeq(s, 2, 3)) # ""
         THEN <<HexDecode(SubSeq(s, 2, 3))>> \o Unquote(Drop(s, 3))
    ELSE <<s[1]>> \o Unquote(Tail(s))

\* url.replace(' ', '%20')
RECURSIVE ReplaceSpace(_)
ReplaceSpace(s) ==
    IF s = <<>> THEN <<>>
    ELSE IF s[1] = SPACE THEN <<"%", "2", "0">> \o ReplaceSpace(Tail(s))
    ELSE <<s[1]>> \o ReplaceSpace(Tail(s))

\* urllib.parse.quote(url, safe=':/?&=#%'): letters, digits, "_.-~" and the
\* safe characters are kept, every other character becomes its %XX escape
QuoteSafe == LowerLetters \cup UpperLetters \cup Digits
             \cup {"_", ".", "-", "~", ":", "/", "?", "&", "=", "#", "%"}

QuoteChar(c) == IF c \in QuoteSafe THEN <<c>>
                ELSE IF c = TAB THEN <<"%", "0", "9">>
                ELSE IF c = NEWLINE THEN <<"%", "0", "A">>
                ELSE IF c = SPACE THEN <<"%", "2", "0">>
                ELSE IF c = "[" THEN <<"%", "5", "B">>
                ELSE IF c = "\\" THEN <<"%", "5", "C">>
                ELSE <<c>>

RECURSIVE Quote(_)
Quote(s) == IF s = <<>> THEN <<>> ELSE QuoteChar(s[1]) \o Quote(Tail(s))

(***************************************************************************)
(* urllib.parse as _normalize_url calls it (CPython 3.11).  The alphabet   *)
(* has no ';' and no ']', so urlparse's params are always empty and the    *)
(* bracketed-host check of urlsplit reduces to the unmatched-bracket test. *)
(***************************************************************************)
UsesRelative == {<<>>,
    <<"f", "t", "p">>,
    <<"h", "t", "t", "p">>,
    <<"g", "o", "p", "h", "e", "r">>,
    <<"n", "n", "t", "p">>,
    <<"i", "m", "a", "p">>,
    <<"w", "a", "i", "s">>,
    <<"f", "i", "l", "e">>,
    <<"h", "t", "t", "p", "s">>,
    <<"s", "h", "t", "t", "p">>,
    <<"m", "m", "s">>,
    <<"p", "r", "o", "s", "p", "e", "r", "o">>,
    <<"r", "t", "s", "p">>,
    <<"r", "t", "s", "p", "s">>,
    <<"r", "t", "s", "p", "u">>,
    <<"s", "f", "t", "p">>,
    <<"s", "v", "n">>,
    <<"s", "v", "n", "+", "s", "s", "h">>,
    <<"w", "s">>,
    <<"w", "s", "s">>}

UsesNetloc == {<<>>,
    <<"f", "t", "p">>,
    <<"h", "t", "t", "p">>,
    <<"g", "o", "p", "h", "e", "r">>,
    <<"n", "n", "t", "p">>,
    <<"t", "e", "l", "n", "e", "t">>,
    <<"i", "m", "a", "p">>,
    <<"w", "a", "i", "s">>,
    <<"f", "i", "l", "e">>,
    <<"m", "m", "s">>,
    <<"h", "t", "t", "p", "s">>,
    <<"s", "h", "t", "t", "p">>,
    <<"s", "n", "e", "w", "s">>,
    <<"p", "r", "o", "s", "p", "e", "r", "o">>,
    <<"r", "t", "s", "p">>,
    <<"r", "t", "s", "p", "s">>,
    <<"r", "t", "s", "p", "u">>,
    <<"r", "s", "y", "n", "c">>,
    <<"s", "v", "n">>,
    <<"s", "v", "n", "+", "s", "s", "h">>,
    <<"s", "f", "t", "p">>,
    <<"n", "f", "s">>,
    <<"g", "i", "t">>,
    <<"g", "i", "t", "+", "s", "s", "h">>,
    <<"w", "s">>,
    <<"w", "s", "s">>}

\* urllib.parse.scheme_chars
SchemeChars == LowerLetters \cup UpperLetters \cup Digits \cup {"+", "-", "."}

\* the first position at or after `from` holding a character of `set`,
\* Len(s) + 1 when there is none
FirstOf(s, set, from) ==
    IF \E i \in from..Len(s) : s[i] \in set
    THEN CHOOSE i \in from..Len(s) :
             s[i] \in set /\ \A j \in from..(i - 1) : s[j] \notin set
    ELSE Len(s) + 1

\* body with x bound to the value of e, as an assignment to a local does
With(e, Body(_)) == CHOOSE r \in {Body(x) : x \in {e}} : TRUE

\* str.split(c, 1) when c occurs in s, [s, ''] otherwise
CutAt(s, c) ==
    LET i == Find(s, c)
    IN  IF i > 0 THEN [head |-> SubSeq(s, 1, i - 1), tail |-> Drop(s, i)]
        ELSE [head |-> s, tail |-> <<>>]

\* urlsplit, lines `i = url.find(':')` on: the position of the ':' that ends
\* a scheme, 0 when u does not start with one
SchemeEnd(u) ==
    LET i == Find(u, ":")
    IN  IF /\ i > 1
           /\ u[1] \in LowerLetters \cup UpperLetters
           /\ \A k \in 1..(i - 1) : u[k] \in SchemeChars
        THEN i ELSE 0

\* urlsplit, `if url[:2] == '//'`: _splitnetloc(url, 2)
CutNetloc(r) ==
    IF StartsWith(r, <<"/", "/">>)
    THEN [netloc |-> SubSeq(r, 3, FirstOf(r, {"/", "?", "#"}, 3) - 1),
          rest |-> Drop(r, FirstOf(r, {"/", "?", "#"}, 3) - 1)]
    ELSE [netloc |-> <<>>, rest |-> r]

\* urlsplit: strip leading C0/space, delete tab and newline, then cut the
\* scheme, the netloc, the fragment and the query off the text in that order
UrlSplit(url, defaultScheme) ==
    With(RemoveChars(LStrip(url, Whitespace), {TAB, NEWLINE}), LAMBDA u :
    With(SchemeEnd(u), LAMBDA i :
    With(CutNetloc(IF i > 0 THEN Drop(u, i) ELSE u), LAMBDA n :
    With(CutAt(n.rest, "#"), LAMBDA f :
    With(CutAt(f.head, "?"), LAMBDA q :
        [raised |-> Contains(n.netloc, "[") # Contains(n.netloc, "]"),
         scheme |-> IF i > 0 THEN Lower(SubSeq(u, 1, i - 1)) ELSE defaultScheme,
         netloc |-> n.netloc, path |-> q.head,
         query |-> q.tail, fragment |-> f.tail])))))

\* urlunsplit
UrlUnsplit(scheme, netloc, path, query, fragment) ==
    LET p1 == IF netloc # <<>>
                 \/ (scheme # <<>> /\ scheme \in UsesNetloc
                     /\ ~StartsWith(path, <<"/", "/">>))
              THEN <<"/", "/">> \o netloc
                   \o (IF path # <<>> /\ path[1] # "/" THEN <<"/">> ELSE <<>>)
                   \o path
              ELSE path
        p2 == IF scheme # <<>> THEN scheme \o <<":">> \o p1 ELSE p1
        p3 == IF query # <<>> THEN p2 \o <<"?">> \o query ELSE p2
    IN  IF fragment # <<>> THEN p3 \o <<"#">> \o fragment ELSE p3

\* str.split('/')
RECURSIVE SplitSlash(_)
SplitSlash(s) ==
    LET i == Find(s, "/")
    IN  IF i = 0 THEN <<s>>
        ELSE <<SubSeq(s, 1, i - 1)>> \o SplitSlash(Drop(s, i))

\* '/'.join(parts)
RECURSIVE JoinSlash(_)
JoinSlash(parts) ==
    IF parts = <<>> THEN <<>>
    ELSE IF Len(parts) = 1 THEN parts[1]
    ELSE parts[1] \o <<"/">> \o JoinSlash(Tail(parts))

\* filter(None, segments)
RECURSIVE FilterEmpty(_)
FilterEmpty(segs) ==
    IF segs = <<>> THEN <<>>
    ELSE IF segs[1] = <<>> THEN FilterEmpty(Tail(segs))
    ELSE <<segs[1]>> \o FilterEmpty(Tail(segs))

\* segments[1:-1] = filter(None, segments[1:-1])
FilterMiddle(segs) ==
    IF Len(segs) <= 2 THEN segs
    ELSE <<segs[1]>> \o FilterEmpty(SubSeq(segs, 2, Len(segs) - 1))
         \o <<segs[Len(segs)]>>

\* the loop of urljoin that removes '.' and '..' segments
RECURSIVE ResolveDots(_, _)
ResolveDots(segs, acc) ==
    IF segs = <<>> THEN acc
    ELSE IF segs[1] = <<".", ".">>
         THEN ResolveDots(Tail(segs),
                          IF acc = <<>> THEN acc ELSE SubSeq(acc, 1, Len(acc) - 1))
    ELSE IF segs[1] = <<".">> THEN ResolveDots(Tail(segs), acc)
    ELSE ResolveDots(Tail(segs), Append(acc, segs[1]))

\* urljoin, from `base_parts = bpath.split('/')` on: the path of the result
JoinPaths(bpath, path) ==
    With(SplitSlash(bpath), LAMBDA baseParts0 :
    With(IF baseParts0[Len(baseParts0)] # <<>>
         THEN SubSeq(baseParts0, 1, Len(baseParts0) - 1)
         ELSE baseParts0, LAMBDA baseParts :
    With(IF StartsWith(path, <<"/">>)
         THEN SplitSlash(path)
         ELSE FilterMiddle(baseParts \o SplitSlash(path)), LAMBDA segments :
    With(ResolveDots(segments, <<>>), LAMBDA resolved0 :
    With(JoinSlash(IF segments[Len(segments)] \in {<<".">>, <<".", ".">>}
                   THEN Append(resolved0, <<>>) ELSE resolved0), LAMBDA joined :
        IF joined = <<>> THEN <<"/">> ELSE joined)))))

\* urljoin once base and url are parsed
JoinParsed(url, bp, up) ==
    IF bp.raised \/ up.raised THEN [raised |-> TRUE, value |-> <<>>]
    ELSE IF up.scheme # bp.scheme \/ up.scheme \notin UsesRelative
         THEN [raised |-> FALSE, value |-> url]
    ELSE IF up.scheme \in UsesNetloc /\ up.netloc # <<>>
         THEN [raised |-> FALSE,
               value |-> UrlUnsplit(up.scheme, up.netloc, up.path,
                                    up.query, up.fragment)]
    ELSE LET netloc == IF up.scheme \in UsesNetloc THEN bp.netloc ELSE up.netloc
         IN  IF up.path = <<>>
             THEN [raised |-> FALSE,
                   value |-> UrlUnsplit(up.scheme, netloc, bp.path,
                                        IF up.query = <<>> THEN bp.query ELSE up.query,
                                        up.fragment)]
             ELSE [raised |-> FALSE,
                   value |-> UrlUnsplit(up.scheme, netloc, JoinPaths(bp.path, up.path),
                                        up.query, up.fragment)]

\* urljoin(base, url); [raised |-> TRUE] stands for the ValueError of urlsplit
UrlJoin(b, url) ==
    IF b = <<>> THEN [raised |-> FALSE, value |-> url]
    ELSE IF url = <<>> THEN [raised |-> FALSE, value |-> b]
    ELSE With(UrlSplit(b, <<>>), LAMBDA bp :
         With(UrlSplit(url, bp.scheme), LAMBDA up :
             JoinParsed(url, bp, up)))

(***************************************************************************)
(* UniversalCrawler._normalize_url                                         *)
(***************************************************************************)
JAVASCRIPT == <<"j", "a", "v", "a", "s", "c", "r", "i", "p", "t", ":">>
MAILTO == <<"m", "a", "i", "l", "t", "o", ":">>
HASH == <<"#">>
HTTP == <<"h", "t", "t", "p", ":", "/", "/">>
HTTPS == <<"h", "t", "t", "p", "s", ":", "/", "/">>

\* re.match(r'^www\\.', url): the raw pattern is  ^www\\.  , that is "www",
\* a literal backslash, then any one character except a newline
MatchesWww(url) ==
    /\ Len(url) >= 5
    /\ SubSeq(url, 1, 4) = <<"w", "w", "w", "\\">>
    /\ url[5] # NEWLINE

Returned(s) == [raised |-> FALSE, value |-> s]
Raised == [raised |-> TRUE, value |-> <<>>]

\* NormalizeBranch without the test of line 106
NormalizeBranchNoReject(url) ==
    IF \/ StartsWith(url, <<"/">>)
       \/ StartsWith(url, <<".", "/">>)
       \/ StartsWith(url, <<".", ".", "/">>)
    THEN "relative"
    ELSE IF ~(StartsWith(url, HTTP) \/ StartsWith(url, HTTPS))
    THEN IF MatchesWww(url) THEN "www" ELSE "noscheme"
    ELSE "http"

\* the branch of _normalize_url that returns for the cleaned url
NormalizeBranch(url) ==
    IF \/ StartsWith(Lower(url), JAVASCRIPT)
       \/ StartsWith(Lower(url), MAILTO)
       \/ StartsWith(Lower(url), HASH)
    THEN "invalid"
    ELSE IF \/ StartsWith(url, <<"/">>)
            \/ StartsWith(url, <<".", "/">>)
            \/ StartsWith(url, <<".", ".", "/">>)
    THEN "relative"
    ELSE IF ~(StartsWith(url, HTTP) \/ StartsWith(url, HTTPS))
    THEN IF MatchesWww(url) THEN "www" ELSE "noscheme"
    ELSE "http"

\* lines 123-130: the result of the repair attempt
NormalizeFixed(fixed) ==
    IF fixed.raised THEN Raised
    ELSE With(UrlSplit(fixed.value, <<>>), LAMBDA parsedFixed :
             IF parsedFixed.raised THEN Raised
             ELSE IF parsedFixed.scheme # <<>> /\ parsedFixed.netloc # <<>>
                  THEN Returned(fixed.value)
             ELSE Returned(<<>>))

\* lines 121-134: the branch for an url that starts with http:// or https://
NormalizeHttp(b, url) ==
    With(UrlSplit(url, <<>>), LAMBDA parsed :
        IF parsed.raised THEN Raised
        ELSE IF parsed.scheme = <<>> \/ parsed.netloc = <<>>
             THEN With(UrlJoin(b, url), LAMBDA fixed : NormalizeFixed(fixed))
        ELSE Returned(Quote(url)))

\* lines 105-134 for the cleaned url
NormalizeCleaned(b, url) ==
    With(NormalizeBranch(url), LAMBDA branch :
        IF branch = "invalid" THEN Returned(<<>>)
        ELSE IF branch = "relative" THEN UrlJoin(b, url)
        ELSE IF branch = "www" THEN Returned(HTTP \o url)
        ELSE IF branch = "noscheme" THEN UrlJoin(b, url)
        ELSE NormalizeHttp(b, url))

NormalizeUrl(b, raw) ==
    IF raw = <<>> THEN Returned(<<>>)
    ELSE With(ReplaceSpace(Unquote(Strip(raw))), LAMBDA url : NormalizeCleaned(b, url))

(***************************************************************************)
(* UniversalCrawler._should_exclude                                        *)
(*                                                                         *)
(* A node is given with its ancestors: chain[1] is the tag, chain[2] its   *)
(* parent, and so on up to the document root, whose parent is None.  An    *)
(* element carries its class list, its id, its data-role attribute and the *)
(* words of the text directly under it; get_text() of an element is the    *)
(* text of everything below it, the tag's own chain included.              *)
(***************************************************************************)
None == "<None>"

\* while current and depth < 5
MaxAncestorDepth == 5

Plain == [class |-> {}, id |-> None, role |-> None, text |-> {}]
AdBanner == [class |-> {"ad", "banner"}, id |-> "sidebar", role |-> "promo",
             text |-> {"Sponsored"}]
AdOnly == [class |-> {"ad"}, id |-> None, role |-> None, text |-> {}]

Elements == {Plain, AdBanner, AdOnly}

\* element.get(name) for the attributes a rule can name
ElementGet(el, name) == IF name = "id" THEN el.id
                        ELSE IF name = "data-role" THEN el.role
                        ELSE None

\* element.get_text(strip=True), as the set of words in it
GetText(ch, k) == UNION {ch[j].text : j \in 1..k}

\* an entry of the exclude list; keys are the keys present in the mapping,
\* class is rule['class'].split()
ClassRule == [isDict |-> TRUE, keys |-> {"class"}, class |-> {"ad", "banner"},
              id |-> None, attrName |-> None, attrValue |-> None, text |-> None]
IdRule == [isDict |-> TRUE, keys |-> {"id"}, class |-> {},
           id |-> "sidebar", attrName |-> None, attrValue |-> None, text |-> None]
AttrRule == [isDict |-> TRUE, keys |-> {"attr"}, class |-> {},
             id |-> None, attrName |-> "data-role", attrValue |-> "promo",
             text |-> None]
TextRule == [isDict |-> TRUE, keys |-> {"text"}, class |-> {},
             id |-> None, attrName |-> None, attrValue |-> None,
             text |-> "Sponsored"]
NotADictRule == [isDict |-> FALSE, keys |-> {}, class |-> {},
                 id |-> None, attrName |-> None, attrValue |-> None, text |-> None]

Rules == {ClassRule, IdRule, AttrRule, TextRule, NotADictRule}

\* the body of the loop of check_element for one rule
RuleMatches(rule, ch, k) ==
    /\ rule.isDict
    /\ \/ "class" \in rule.keys /\ rule.class \subseteq ch[k].class
       \/ "id" \in rule.keys /\ ElementGet(ch[k], "id") = rule.id
       \/ /\ "attr" \in rule.keys
          /\ rule.attrName # None /\ rule.attrValue # None
          /\ ElementGet(ch[k], rule.attrName) = rule.attrValue
       \/ "text" \in rule.keys /\ rule.text \in GetText(ch, k)

\* check_element(element): the first matching rule returns True
RECURSIVE CheckRules(_, _, _, _)
CheckRules(rules, i, ch, k) ==
    IF i > Len(rules) THEN FALSE
    ELSE IF RuleMatches(rules[i], ch, k) THEN TRUE
    ELSE CheckRules(rules, i + 1, ch, k)

CheckElement(rules, ch, k) == CheckRules(rules, 1, ch, k)

\* the while loop over tag.parent: cur is the chain position of `current`
RECURSIVE WalkParents(_, _, _, _, _)
WalkParents(rules, ch, cur, depth, limit) ==
    IF ~(cur <= Len(ch) /\ depth < limit) THEN FALSE
    ELSE IF CheckElement(rules, ch, cur) THEN TRUE
    ELSE WalkParents(rules, ch, cur + 1, depth + 1, limit)

\* ShouldExclude with the loop bound one too large (depth <= 5)
ShouldExcludeOneLevelMore(rules, ch) ==
    IF CheckElement(rules, ch, 1) THEN TRUE
    ELSE WalkParents(rules, ch, 2, 0, MaxAncestorDepth + 1)

\* _should_exclude: the tag itself, then its parents while depth < 5
ShouldExclude(rules, ch) ==
    IF CheckElement(rules, ch, 1) THEN TRUE
    ELSE WalkParents(rules, ch, 2, 0, MaxAncestorDepth)

(***************************************************************************)
(* UniversalCrawler._extract_items                                         *)
(*                                                                         *)
(* A container is what soup.select / find_all returned for one node: the   *)
(* node with its ancestors (chain), its first <a> (hasLink, href and the   *)
(* stripped link text) and the date text found in it (<<>> when neither a  *)
(* date element nor the date pattern is found).                            *)
(***************************************************************************)
\* the date markers U+5E74 (year), U+6708 (month), U+65E5 (day)
YEAR_MARK == "Y"
MONTH_MARK == "M"
DAY_MARK == "D"

\* Python's None where a text is expected
NoneText == <<None>>

\* re.sub(r'[<year><month>]', '-', date_text).replace('<day>', '')
RECURSIVE ReplaceMarkers(_)
ReplaceMarkers(s) ==
    IF s = <<>> THEN <<>>
    ELSE IF s[1] \in {YEAR_MARK, MONTH_MARK} THEN <<"-">> \o ReplaceMarkers(Tail(s))
    ELSE IF s[1] = DAY_MARK THEN ReplaceMarkers(Tail(s))
    ELSE <<s[1]>> \o ReplaceMarkers(Tail(s))

\* lines 235-238: date stays None when no date text was found
NormalizeDate(dateText) ==
    IF dateText = <<>> THEN NoneText
    ELSE RStrip(LStrip(ReplaceMarkers(dateText), {"-"}), {"-"})

GoodA == [chain |-> <<Plain, Plain>>, hasLink |-> TRUE, href |-> <<"/", "x">>,
          linkText |-> "Title A",
          dateText |-> <<"2", "0", "2", "4", "Y", "0", "1", "M", "0", "2", "D">>]
GoodB == [chain |-> <<Plain, Plain>>, hasLink |-> TRUE, href |-> <<"a">>,
          linkText |-> "Title B", dateText |-> <<>>]
NoLink == [chain |-> <<Plain, Plain>>, hasLink |-> FALSE, href |-> <<>>,
           linkText |-> "", dateText |-> <<>>]
BadHref == [chain |-> <<Plain, Plain>>, hasLink |-> TRUE, href |-> HTTP \o <<"[">>,
            linkText |-> "Broken", dateText |-> <<>>]
JsLink == [chain |-> <<Plain, Plain>>, hasLink |-> TRUE, href |-> JAVASCRIPT,
           linkText |-> "Click", dateText |-> <<>>]
NoTitle == [chain |-> <<Plain, Plain>>, hasLink |-> TRUE, href |-> <<"/", "x">>,
            linkText |-> "", dateText |-> <<>>]
AdItem == [chain |-> <<Plain, AdBanner, Plain>>, hasLink |-> TRUE,
           href |-> <<"/", "a">>, linkText |-> "Ad", dateText |-> <<>>]

Containers == {GoodA, GoodB, NoLink, BadHref, JsLink, NoTitle, AdItem}

\* [c for c in containers if not self._should_exclude(c)], when self.exclude
RECURSIVE Survivors(_, _)
Survivors(rules, cs) ==
    IF cs = <<>> THEN <<>>
    ELSE IF rules # <<>> /\ ShouldExclude(rules, cs[1].chain)
         THEN Survivors(rules, Tail(cs))
    ELSE <<cs[1]>> \o Survivors(rules, Tail(cs))

\* the (title, url, date) tuple built for a container whose href normalised
\* to url
ItemOf(c, url) == [title |-> c.linkText, url |-> url, date |-> NormalizeDate(c.dateText)]

\* ShouldEmit without the test of url
ShouldEmitTitleOnly(title, url) == title # ""

\* line 239, `if title and url`, for a container that has a link
ShouldEmit(title, url) == title # "" /\ url # <<>>

\* the for loop of lines 214-240 from container i on; an exception raised
\* while a container is processed leaves the loop for the except clause of
\* line 245, and the items collected so far are returned
RECURSIVE ExtractLoop(_, _, _, _)
ExtractLoop(b, cs, i, items) ==
    IF i > Len(cs) THEN items
    ELSE IF ~cs[i].hasLink THEN ExtractLoop(b, cs, i + 1, items)
    ELSE With(NormalizeUrl(b, cs[i].href), LAMBDA n :
             IF n.raised THEN items
             ELSE IF ShouldEmit(cs[i].linkText, n.value)
                  THEN ExtractLoop(b, cs, i + 1, Append(items, ItemOf(cs[i], n.value)))
             ELSE ExtractLoop(b, cs, i + 1, items))

ExtractItems(b, rules, cs) ==
    IF cs = <<>> THEN <<>>
    ELSE With(Survivors(rules, cs), LAMBDA surv : ExtractLoop(b, surv, 1, <<>>))

(***************************************************************************)
(* UniversalCrawler.crawl, JSON path                                       *)
(*                                                                         *)
(* A JSON value is a record of one shape: kind says which of the other     *)
(* fields is meaningful.                                                   *)
(***************************************************************************)
NoFields == [k \in {} |-> 0]

JNull == [kind |-> "null", s |-> "", n |-> 0, elems |-> <<>>, fields |-> NoFields]
JStr(str) == [kind |-> "str", s |-> str, n |-> 0, elems |-> <<>>, fields |-> NoFields]
JInt(num) == [kind |-> "int", s |-> "", n |-> num, elems |-> <<>>, fields |-> NoFields]
JList(es) == [kind |-> "list", s |-> "", n |-> 0, elems |-> es, fields |-> NoFields]
JDict(f) == [kind |-> "dict", s |-> "", n |-> 0, elems |-> <<>>, fields |-> f]

\* dict.get(key, default)
DictGet(d, key, default) == IF key \in DOMAIN d.fields THEN d.fields[key] ELSE default

\* bool(value)
Truthy(v) == CASE v.kind = "null" -> FALSE
               [] v.kind = "str" -> v.s # ""
               [] v.kind = "int" -> v.n # 0
               [] v.kind = "list" -> v.elems # <<>>
               [] v.kind = "dict" -> DOMAIN v.fields # {}

SecondsPerDay == 86400

\* datetime.fromtimestamp(n).strftime('%Y-%m-%d'), for the first days of the
\* epoch and a clock on UTC
FormatDay(n) == CASE n \div SecondsPerDay = 0 -> "1970-01-01"
                  [] n \div SecondsPerDay = 1 -> "1970-01-02"
                  [] n \div SecondsPerDay = 2 -> "1970-01-03"
                  [] OTHER -> "1970-01-04+"

\* lines 284-288: int(date) raises for the non-numeric strings, lists and
\* mappings of the model, and the raw value is then kept
ConvertDate(date, fmap) ==
    IF /\ Truthy(date)
       /\ "date_format" \in DOMAIN fmap
       /\ fmap["date_format"] = "timestamp"
       /\ date.kind = "int"
    THEN JStr(FormatDay(date.n))
    ELSE date

\* self.field_map.get(role, role)
FieldKey(fmap, role) == IF role \in DOMAIN fmap THEN fmap[role] ELSE role

\* lines 259-266: the walk stops (break) at the first segment at which the
\* cursor is not a dict, keeping the cursor
RECURSIVE WalkPath(_, _, _)
WalkPath(cursor, path, i) ==
    IF i > Len(path) THEN cursor
    ELSE IF cursor.kind = "dict"
         THEN WalkPath(DictGet(cursor, path[i], JList(<<>>)), path, i + 1)
    ELSE cursor

\* TRUE when the walk met a segment at which the cursor was not a dict
RECURSIVE WalkAborted(_, _, _)
WalkAborted(cursor, path, i) ==
    IF i > Len(path) THEN FALSE
    ELSE IF cursor.kind = "dict"
         THEN WalkAborted(DictGet(cursor, path[i], JList(<<>>)), path, i + 1)
    ELSE TRUE

\* lines 267-273: [ok |-> FALSE] is the `return []` of line 273
ResolveList(items) ==
    IF items.kind = "list" THEN [ok |-> TRUE, elems |-> items.elems]
    ELSE IF /\ items.kind = "dict"
            /\ Cardinality(DOMAIN items.fields) = 1
            /\ \A k \in DOMAIN items.fields : items.fields[k].kind = "list"
         THEN [ok |-> TRUE,
               elems |-> items.fields[CHOOSE k \in DOMAIN items.fields : TRUE].elems]
    ELSE [ok |-> FALSE, elems |-> <<>>]

JsonRecord(item, fmap) ==
    [title |-> DictGet(item, FieldKey(fmap, "title"), JNull),
     url |-> DictGet(item, FieldKey(fmap, "url"), JNull),
     date |-> ConvertDate(DictGet(item, FieldKey(fmap, "date"), JNull), fmap)]

\* lines 279-294: item.get on an item that is not a dict raises
\* AttributeError, which only the except clause of line 307 catches
RECURSIVE JsonLoop(_, _, _, _)
JsonLoop(elems, i, fmap, acc) ==
    IF i > Len(elems) THEN [raised |-> FALSE, records |-> acc]
    ELSE IF elems[i].kind # "dict" THEN [raised |-> TRUE, records |-> acc]
    ELSE JsonLoop(elems, i + 1, fmap, Append(acc, JsonRecord(elems[i], fmap)))

\* crawl() with type_ == "json" on a fetched and parsed document
CrawlJsonDoc(doc, path, fmap) ==
    With(ResolveList(WalkPath(doc, path, 1)), LAMBDA list :
        IF ~list.ok THEN <<>>
        ELSE With(JsonLoop(list.elems, 1, fmap, <<>>), LAMBDA loop :
                 IF loop.raised THEN <<>> ELSE loop.records))

(***************************************************************************)
(* The hrefs and base URLs the normaliser is run on                        *)
(***************************************************************************)
\* the pieces hrefs are built from: the rejected prefixes in lower and mixed
\* case, escapes that decode to whitespace and '#', the relative and
\* absolute prefixes, a scheme without a host, and characters urlsplit and
\* the www pattern react to
HrefPieces == {
    JAVASCRIPT,
    <<"J", "a", "v", "a", "S", "c", "r", "i", "p", "t", ":">>,
    MAILTO,
    HASH,
    <<SPACE>>,
    <<"%", "0", "9">>,
    <<"%", "2", "3">>,
    <<"/">>,
    <<".">>,
    <<".", ".">>,
    HTTP,
    HTTPS,
    <<"w", "w", "w">>,
    <<"\\">>,
    <<"a">>,
    <<"t", "e", "l", ":">>,
    <<"[">>,
    <<"?">>}

RECURSIVE HrefsOf(_)
HrefsOf(n) ==
    IF n = 0 THEN {<<>>}
    ELSE HrefsOf(n - 1) \cup {h \o p : h \in HrefsOf(n - 1), p \in HrefPieces}

Hrefs == HrefsOf(MaxPieces)

\* the configured page URLs: a file-like and a directory-like path
BaseUrls == {
    <<"h", "t", "t", "p", ":", "/", "/", "h", "/", "p", "/", "q">>,
    <<"h", "t", "t", "p", "s", ":", "/", "/", "h", "/", "d", "/">>}

\* sequences over S of length at most n
RECURSIVE SeqsUpTo(_, _)
SeqsUpTo(S, n) ==
    IF n = 0 THEN {<<>>}
    ELSE SeqsUpTo(S, n - 1) \cup {Append(q, x) : q \in SeqsUpTo(S, n - 1), x \in S}

(***************************************************************************)
(* The state of the parts a specification does not exercise                *)
(***************************************************************************)
IdleNormalize == href = <<>> /\ normOut = Returned(<<>>) /\ normPc = "idle"
IdleExclude == chain = <<>> /\ exclOut = FALSE /\ exclPc = "idle"
IdleCrawl ==
    /\ fetchOk = FALSE /\ page = <<>> /\ data = JNull
    /\ crawlOut = <<>> /\ crawlPc = "idle"
IdleManager ==
    /\ websites = <<>> /\ db = NoFields /\ cycle = 0 /\ pc = "idle" /\ idx = 0
    /\ results = <<>> /\ before = {} /\ after = {} /\ newUrls = {}
    /\ pushed = {} /\ crawled = {} /\ storedAtCrawl = {} /\ stageLog = <<>>
DefaultCrawler ==
    /\ base = <<>> /\ exclude = <<>> /\ srcType = None
    /\ jsonPath = <<>> /\ fieldMap = NoFields

(***************************************************************************)
(* SpecNormalize: one call of _normalize_url on every href and base        *)
(***************************************************************************)
InitNormalize ==
    /\ href \in Hrefs
    /\ base \in BaseUrls
    /\ exclude = <<>> /\ srcType = None /\ jsonPath = <<>> /\ fieldMap = NoFields
    /\ normOut = Returned(<<>>)
    /\ normPc = "call"
    /\ IdleExclude /\ IdleCrawl /\ IdleManager

CallNormalize ==
    /\ normPc = "call"
    /\ normOut' = NormalizeUrl(base, href)
    /\ normPc' = "returned"
    /\ UNCHANGED <<href, crawlerVars, exclVars, crawlVars, managerVars>>

NextNormalize == CallNormalize

SpecNormalize == InitNormalize /\ [][NextNormalize]_vars

(***************************************************************************)
(* SpecExclude: one call of _should_exclude on every chain and rule list   *)
(***************************************************************************)
Chains == SeqsUpTo(Elements, MaxChain) \ {<<>>}
RuleLists == SeqsUpTo(Rules, MaxRules)

InitExclude ==
    /\ chain \in Chains
    /\ exclude \in RuleLists
    /\ base = <<>> /\ srcType = None /\ jsonPath = <<>> /\ fieldMap = NoFields
    /\ exclOut = FALSE
    /\ exclPc = "call"
    /\ IdleNormalize /\ IdleCrawl /\ IdleManager

CallShouldExclude ==
    /\ exclPc = "call"
    /\ exclOut' = ShouldExclude(exclude, chain)
    /\ exclPc' = "returned"
    /\ UNCHANGED <<chain, crawlerVars, normVars, crawlVars, managerVars>>

NextExclude == CallShouldExclude

SpecExclude == InitExclude /\ [][NextExclude]_vars

(***************************************************************************)
(* SpecCrawl: one call of UniversalCrawler.crawl on every page or document *)
(***************************************************************************)
Pages == SeqsUpTo(Containers, MaxContainers)

ItemA == JDict([title |-> JStr("A"), url |-> JStr("u1"), date |-> JInt(SecondsPerDay)])
ItemB == JDict([name |-> JStr("B"), link |-> JStr("u2")])
ItemEmptyTitle == JDict([title |-> JStr(""), url |-> JStr("u3"), date |-> JStr("x")])
ItemNotADict == JStr("x")

Items == {ItemA, ItemB, ItemEmptyTitle, ItemNotADict}
ItemLists == SeqsUpTo(Items, MaxItems)

\* the shapes of response body: the list itself, the list under one key,
\* under two nested keys, beside a second key, and bodies without a list
DocumentsOf(l) == {
    JList(l),
    JDict([data |-> JList(l)]),
    JDict([data |-> JDict([list |-> JList(l)])]),
    JDict([data |-> JList(l), total |-> JInt(Len(l))]),
    JDict([data |-> JStr("x")]),
    JNull}

Documents == UNION {DocumentsOf(l) : l \in ItemLists}

JsonPaths == {<<>>, <<"data">>, <<"data", "list">>, <<"list">>}

FieldMaps == {NoFields,
              [date_format |-> "timestamp"],
              [title |-> "name", url |-> "link"]}

InitCrawl ==
    /\ base \in BaseUrls
    /\ fetchOk \in BOOLEAN
    /\ \/ /\ srcType = None
          /\ exclude \in {<<>>, <<ClassRule>>}
          /\ page \in Pages
          /\ data = JNull /\ jsonPath = <<>> /\ fieldMap = NoFields
       \/ /\ srcType = "json"
          /\ data \in Documents
          /\ jsonPath \in JsonPaths
          /\ fieldMap \in FieldMaps
          /\ exclude = <<>> /\ page = <<>>
    /\ crawlOut = <<>>
    /\ crawlPc = "call"
    /\ IdleNormalize /\ IdleExclude /\ IdleManager

\* lines 295-306, and 307-309 when fetch_page raises
CrawlMarkup ==
    /\ crawlPc = "call"
    /\ srcType # "json"
    /\ crawlOut' = IF fetchOk THEN ExtractItems(base, exclude, page) ELSE <<>>
    /\ crawlPc' = "returned"
    /\ UNCHANGED <<fetchOk, page, data, crawlerVars, normVars, exclVars, managerVars>>

\* lines 252-294, and 307-309 when the request or the parsing raises
CrawlJson ==
    /\ crawlPc = "call"
    /\ srcType = "json"
    /\ crawlOut' = IF fetchOk THEN CrawlJsonDoc(data, jsonPath, fieldMap) ELSE <<>>
    /\ crawlPc' = "returned"
    /\ UNCHANGED <<fetchOk, page, data, crawlerVars, normVars, exclVars, managerVars>>

NextCrawl == CrawlMarkup \/ CrawlJson

SpecCrawl == InitCrawl /\ [][NextCrawl]_vars

(***************************************************************************)
(* Spec: CrawlerManager.run and crawl_all over the Database                *)
(*                                                                         *)
(* crawl_all is one coroutine and nothing runs beside it; it is cut into   *)
(* steps at its awaits.  What a site's page holds is an input, so the list *)
(* crawler.crawl() returns is any list of records.                         *)
(***************************************************************************)
SiteNames == {"site1", "site2", "site3"}
SiteName(i) == IF i = 1 THEN "site1" ELSE IF i = 2 THEN "site2" ELSE "site3"

Urls == {"u1", "u2"}
Records == {[title |-> "T", url |-> u, date |-> None] : u \in Urls}
ResultLists == SeqsUpTo(Records, MaxResults)

\* the methods class Database defines
DatabaseMethods == {"connect", "create_database", "create_table",
                    "create_table_for_website", "create_tables",
                    "save_articles", "close"}

\* await self.db.get_all_urls(name) if hasattr(self.db, 'get_all_urls') else set()
GetAllUrlsOrEmpty(d, name) ==
    IF "get_all_urls" \in DatabaseMethods THEN d[name] ELSE {}

UrlsOf(rs) == {rs[i].url : i \in 1..Len(rs)}

\* INSERT IGNORE of the first k articles: a row whose url is already in the
\* table is left as it is
InsertIgnore(table, articles, k) == table \cup {articles[i].url : i \in 1..k}

\* lines 394-398
NewUrls(b, a, rs) == IF b # {} /\ a # {} THEN a \ b ELSE UrlsOf(rs)

\* AfterCrawl with new_urls computed before anything is read or saved
AfterCrawlDiffFirst(rs) == IF rs # <<>> THEN "diff" ELSE "site_done"

\* where crawl_all goes after crawler.crawl() returned rs (line 388)
AfterCrawl(rs) == IF rs # <<>> THEN "before" ELSE "site_done"

Init ==
    /\ websites \in [1..NumSites -> {[name |-> n, enable |-> e] :
                                        n \in SiteNames, e \in BOOLEAN}]
    /\ \A i \in 1..NumSites : websites[i].name = SiteName(i)
    /\ db = [n \in SiteNames |-> {}]
    /\ cycle = 0
    /\ pc = "idle"
    /\ idx = 0
    /\ results = <<>> /\ before = {} /\ after = {} /\ newUrls = {}
    /\ pushed = {} /\ crawled = {} /\ storedAtCrawl = {} /\ stageLog = <<>>
    /\ DefaultCrawler
    /\ IdleNormalize /\ IdleExclude /\ IdleCrawl

site == websites[idx]

\* run(): load_config, init_database (CREATE TABLE IF NOT EXISTS keeps the
\* rows of earlier runs), then crawl_all starts its loop
StartRun ==
    /\ pc \in {"idle", "done", "aborted"}
    /\ cycle < MaxCycles
    /\ cycle' = cycle + 1
    /\ idx' = 1
    /\ pc' = "site"
    /\ crawled' = {}
    /\ results' = <<>> /\ before' = {} /\ after' = {} /\ newUrls' = {}
    /\ pushed' = {} /\ storedAtCrawl' = {} /\ stageLog' = <<>>
    /\ UNCHANGED <<websites, db, crawlerVars, normVars, exclVars, crawlVars>>

\* lines 374-376
SkipDisabled ==
    /\ pc = "site" /\ idx <= NumSites
    /\ ~site.enable
    /\ idx' = idx + 1
    /\ UNCHANGED <<websites, db, cycle, pc, results, before, after, newUrls,
                   pushed, crawled, storedAtCrawl, stageLog,
                   crawlerVars, normVars, exclVars, crawlVars>>

\* lines 377-388 and 402-403: crawl() returns [] when the fetch failed
Crawl ==
    /\ pc = "site" /\ idx <= NumSites
    /\ site.enable
    /\ \E rs \in ResultLists :
          /\ results' = rs
          /\ pc' = AfterCrawl(rs)
    /\ crawled' = crawled \cup {site.name}
    /\ storedAtCrawl' = db[site.name]
    /\ stageLog' = <<"extract">>
    /\ before' = {} /\ after' = {} /\ newUrls' = {} /\ pushed' = {}
    /\ UNCHANGED <<websites, db, cycle, idx, crawlerVars, normVars, exclVars, crawlVars>>

\* line 391
ReadBefore ==
    /\ pc = "before"
    /\ before' = GetAllUrlsOrEmpty(db, site.name)
    /\ stageLog' = Append(stageLog, "read_before")
    /\ pc' = "save"
    /\ UNCHANGED <<websites, db, cycle, idx, results, after, newUrls, pushed,
                   crawled, storedAtCrawl, crawlerVars, normVars, exclVars, crawlVars>>

\* line 392, save_articles returning
SaveArticles ==
    /\ pc = "save"
    /\ db' = [db EXCEPT ![site.name] = InsertIgnore(@, results, Len(results))]
    /\ stageLog' = Append(stageLog, "persist")
    /\ pc' = "after"
    /\ UNCHANGED <<websites, cycle, idx, results, before, after, newUrls, pushed,
                   crawled, storedAtCrawl, crawlerVars, normVars, exclVars, crawlVars>>

\* line 392, save_articles raising (lines 119-121) after k rows went in
\* (autocommit; k = Len(results) when a later statement fails): the exception leaves crawl_all, and run() closes the pool
SaveArticlesFails ==
    /\ pc = "save"
    /\ \E k \in 0..Len(results) :
          db' = [db EXCEPT ![site.name] = InsertIgnore(@, results, k)]
    /\ pc' = "aborted"
    /\ UNCHANGED <<websites, cycle, idx, results, before, after, newUrls, pushed,
                   crawled, storedAtCrawl, stageLog,
                   crawlerVars, normVars, exclVars, crawlVars>>

\* line 393
ReadAfter ==
    /\ pc = "after"
    /\ after' = GetAllUrlsOrEmpty(db, site.name)
    /\ stageLog' = Append(stageLog, "read_after")
    /\ pc' = "diff"
    /\ UNCHANGED <<websites, db, cycle, idx, results, before, newUrls, pushed,
                   crawled, storedAtCrawl, crawlerVars, normVars, exclVars, crawlVars>>

\* lines 394-398
Diff ==
    /\ pc = "diff"
    /\ newUrls' = NewUrls(before, after, results)
    /\ stageLog' = Append(stageLog, "diff")
    /\ pc' = "notify"
    /\ UNCHANGED <<websites, db, cycle, idx, results, before, after, pushed,
                   crawled, storedAtCrawl, crawlerVars, normVars, exclVars, crawlVars>>

\* lines 399-401: bark_push never raises
Notify ==
    /\ pc = "notify"
    /\ pushed' = {i \in 1..Len(results) : results[i].url \in newUrls}
    /\ stageLog' = Append(stageLog, "notify")
    /\ pc' = "site_done"
    /\ UNCHANGED <<websites, db, cycle, idx, results, before, after, newUrls,
                   crawled, storedAtCrawl, crawlerVars, normVars, exclVars, crawlVars>>

\* the for loop of line 372 takes the next site
NextSite ==
    /\ pc = "site_done"
    /\ idx' = idx + 1
    /\ pc' = "site"
    /\ UNCHANGED <<websites, db, cycle, results, before, after, newUrls, pushed,
                   crawled, storedAtCrawl, stageLog,
                   crawlerVars, normVars, exclVars, crawlVars>>

\* crawl_all returns, run() closes the pool (lines 411-413)
Finish ==
    /\ pc = "site" /\ idx > NumSites
    /\ pc' = "done"
    /\ UNCHANGED <<websites, db, cycle, idx, results, before, after, newUrls,
                   pushed, crawled, storedAtCrawl, stageLog,
                   crawlerVars, normVars, exclVars, crawlVars>>

Next ==
    \/ StartRun \/ SkipDisabled \/ Crawl \/ ReadBefore \/ SaveArticles
    \/ SaveArticlesFails \/ ReadAfter \/ Diff \/ Notify \/ NextSite \/ Finish

Spec == Init /\ [][Next]_vars

(***************************************************************************)
(* Properties of crawl_all (Spec)                                          *)
(***************************************************************************)
SiteFinished == pc = "site_done" /\ results # <<>>

\* C1: when a site's turn ends with a non-empty result list, bark_push was
\* called for exactly the records whose url was not stored for the site
\* before the turn; a url stored by an earlier cycle is not notified again.
C1_NotifiesExactlyNewRecords ==
    SiteFinished =>
        pushed = {i \in 1..Len(results) : results[i].url \notin storedAtCrawl}

CycleEnded == pc \in {"done", "aborted"}

\* C2: when a cycle has ended, crawler.crawl() was called for every enabled
\* site of the list, whatever failed for the sites before it.
C2_EveryEnabledSiteIsCrawled ==
    CycleEnded =>
        \A i \in 1..NumSites : websites[i].enable => websites[i].name \in crawled

IsPrefix(p, q) == Len(p) <= Len(q) /\ SubSeq(q, 1, Len(p)) = p

Before(log, a, b) ==
    \A j \in 1..Len(log) : log[j] = b => \E i \in 1..(j - 1) : log[i] = a

\* C8 as stated: for one site the steps come in the order extraction,
\* differencing, persistence, notification; new_urls is computed before
\* save_articles writes.
C8_DiffBeforePersist ==
    /\ Before(stageLog, "extract", "diff")
    /\ Before(stageLog, "diff", "persist")
    /\ Before(stageLog, "diff", "notify")

\* C8 as amended: for one site the steps come in the order extraction,
\* read of before, persistence, read of after, differencing, notification,
\* each after the one before it has completed.
C8_PersistBeforeDiff ==
    IsPrefix(stageLog,
             <<"extract", "read_before", "persist", "read_after", "diff", "notify">>)

C8_Witness ==
    /\ pc = "site_done"
    /\ stageLog = <<"extract", "read_before", "persist", "read_after", "diff", "notify">>
    /\ pushed # {}

(***************************************************************************)
(* Properties of UniversalCrawler.crawl (SpecCrawl)                        *)
(***************************************************************************)
MarkupReturned == crawlPc = "returned" /\ srcType # "json" /\ fetchOk
JsonReturned == crawlPc = "returned" /\ srcType = "json" /\ fetchOk

InSeq(x, q) == \E j \in 1..Len(q) : q[j] = x

\* a container that yields a record when it is processed on its own
YieldsRecord(c) ==
    /\ c.hasLink
    /\ ~NormalizeUrl(base, c.href).raised
    /\ c.linkText # ""
    /\ NormalizeUrl(base, c.href).value # <<>>

\* C3: every surviving container that yields a record has its record in the
\* list _extract_items returns, also when the processing of a container
\* before it raised.
C3_LaterContainersStillExtracted ==
    MarkupReturned =>
        LET surv == Survivors(exclude, page)
        IN  \A i \in 1..Len(surv) :
               YieldsRecord(surv[i]) =>
                   InSeq(ItemOf(surv[i], NormalizeUrl(base, surv[i].href).value),
                         crawlOut)

\* an empty or absent title / url, on the JSON path and on the markup path
JsonFieldEmpty(v) == ~(v.kind = "str" /\ v.s # "")
MarkupRecordEmpty(r) ==
    r.title = "" \/ r.title = None \/ r.url = <<>> \/ r.url = NoneText

C9_AbortedWalkYieldsNothing ==
    (JsonReturned /\ WalkAborted(data, jsonPath, 1)) => crawlOut = <<>>

\* C10: every item of the resolved list that is a mapping has its record in
\* the list crawl returns, also when another item of the list is not one.
C10_OtherItemsStillReturned ==
    JsonReturned =>
        LET list == ResolveList(WalkPath(data, jsonPath, 1))
        IN  \A i \in 1..Len(list.elems) :
               (list.ok /\ list.elems[i].kind = "dict") =>
                   InSeq(JsonRecord(list.elems[i], fieldMap), crawlOut)

(***************************************************************************)
(* Properties of _normalize_url (SpecNormalize)                            *)
(***************************************************************************)
NormalizeReturned == normPc = "returned" /\ ~normOut.raised

\* C5: what _normalize_url returns never starts with javascript: or mailto:
\* (in any letter case) or with #.
C5_NeverReturnsRejectedPrefix ==
    NormalizeReturned =>
        /\ ~StartsWith(Lower(normOut.value), JAVASCRIPT)
        /\ ~StartsWith(Lower(normOut.value), MAILTO)
        /\ ~StartsWith(normOut.value, HASH)

\* an href that reaches the javascript: prefix only once %09 is decoded, and
\* for which a value comes back
C5_Witness ==
    /\ NormalizeReturned
    /\ StartsWith(href, <<"%", "0", "9">> \o JAVASCRIPT)
    /\ normOut.value # <<>>

HasSchemeAndHost(url) ==
    UrlSplit(url, <<>>).scheme # <<>> /\ UrlSplit(url, <<>>).netloc # <<>>

\* C6: what _normalize_url returns is the empty string or a URL with a
\* scheme and a host, on every return path.
C6_EmptyOrSchemeAndHost ==
    NormalizeReturned => (normOut.value = <<>> \/ HasSchemeAndHost(normOut.value))

\* the href as _normalize_url sees it after lines 100-103
Cleaned(raw) == ReplaceSpace(Unquote(Strip(raw)))

WWW_DOT == <<"w", "w", "w", ".">>

\* C11: for a scheme-less href that starts with www. the call returns
\* http:// followed by the href, and not the href resolved against the page.
C11_WwwGetsHttpPrefix ==
    (NormalizeReturned /\ StartsWith(Cleaned(href), WWW_DOT)) =>
        normOut.value = HTTP \o Cleaned(href)

(***************************************************************************)
(* Properties of _should_exclude (SpecExclude)                             *)
(***************************************************************************)
\* some rule matches the element `level` steps above the tag (0 is the tag)
MatchesAtLevel(level) ==
    level + 1 <= Len(chain) /\ \E r \in 1..Len(exclude) :
                                   RuleMatches(exclude[r], chain, level + 1)

\* C7: _should_exclude is true exactly when a rule matches the tag or one
\* of its first 5 ancestors, and false for every tag when there is no rule.
C7_ExcludedIffMatchWithinFiveLevels ==
    exclPc = "returned" =>
        /\ exclOut = (\E level \in 0..5 : MatchesAtLevel(level))
        /\ exclude = <<>> => ~exclOut

\* the only matching ancestor is at level 6, and the tag is not excluded
C7_Witness ==
    /\ exclPc = "returned"
    /\ MatchesAtLevel(6)
    /\ \A level \in 0..5 : ~MatchesAtLevel(level)
    /\ ~exclOut

====
